---- MODULE Spec2Model ----
(***************************************************************************)
(* ftp-paradise: the worker pool (thread_pool.rs), the acceptor            *)
(* (FtpServer::start), the command loop (handle_connection) and the        *)
(* command handlers of FtpClient, as one state machine.                    *)
(*                                                                         *)
(* Strings are sequences of one-character strings, so that trim, split,    *)
(* to_uppercase, trim_end_matches and rfind are computed as the code       *)
(* computes them.                                                          *)
(***************************************************************************)
EXTENDS Integers, Sequences, FiniteSets, TLC

(***************************************************************************)
(* Bounds of the model.                                                    *)
(***************************************************************************)
\* Largest argument given to ThreadPool::build (FtpServer::start passes 10).
MaxPoolSize == 2
\* Number of client connections that reach the acceptor.
MaxConns == 2
\* Number of request lines the clients send, all connections together.
MaxRequests == 2
\* Number of request lines the client of a single session sends.
MaxSessionRequests == 4
\* Number of request lines the client of a session setting its options sends.
MaxSettingRequests == 3

(***************************************************************************)
(* String helpers (std::str).                                              *)
(***************************************************************************)
CR == "\r"
LF == "\n"
SP == " "
SLASH == "/"

WhiteSpace == {SP, CR, LF, "\t"}

Lower == <<"a","b","c","d","e","f","g","h","i","j","k","l","m",
           "n","o","p","q","r","s","t","u","v","w","x","y","z">>
Upper == <<"A","B","C","D","E","F","G","H","I","J","K","L","M",
           "N","O","P","Q","R","S","T","U","V","W","X","Y","Z">>

\* char::to_uppercase on the letters a..z; every other character is kept.
ToUpperChar(ch) ==
    IF \E i \in 1..Len(Lower) : Lower[i] = ch
    THEN Upper[CHOOSE i \in 1..Len(Lower) : Lower[i] = ch]
    ELSE ch

\* str::to_uppercase
to_uppercase(s) == [i \in 1..Len(s) |-> ToUpperChar(s[i])]

RECURSIVE trim_start(_)
trim_start(s) ==
    IF s # <<>> /\ Head(s) \in WhiteSpace THEN trim_start(Tail(s)) ELSE s

RECURSIVE trim_end(_)
trim_end(s) ==
    IF s # <<>> /\ s[Len(s)] \in WhiteSpace
    THEN trim_end(SubSeq(s, 1, Len(s) - 1))
    ELSE s

\* str::trim: leading and trailing white space removed.
trim(s) == trim_end(trim_start(s))

\* str::trim_end_matches(ch)
RECURSIVE trim_end_matches(_, _)
trim_end_matches(s, ch) ==
    IF s # <<>> /\ s[Len(s)] = ch
    THEN trim_end_matches(SubSeq(s, 1, Len(s) - 1), ch)
    ELSE s

\* str::starts_with(ch)
starts_with(s, ch) == s # <<>> /\ Head(s) = ch

\* str::rfind(ch): the 0-based index of the last occurrence, or -1 for None.
rfind(s, ch) ==
    IF \E i \in 1..Len(s) : s[i] = ch
    THEN (CHOOSE i \in 1..Len(s) : s[i] = ch /\ \A j \in (i+1)..Len(s) : s[j] # ch) - 1
    ELSE -1

\* str::split(ch): the pieces between the separators, empty pieces included;
\* always at least one piece.
RECURSIVE split(_, _)
split(s, ch) ==
    IF \E i \in 1..Len(s) : s[i] = ch
    THEN LET i == CHOOSE k \in 1..Len(s) : s[k] = ch /\ \A j \in 1..(k-1) : s[j] # ch
         IN  <<SubSeq(s, 1, i - 1)>> \o split(SubSeq(s, i + 1, Len(s)), ch)
    ELSE <<s>>

(***************************************************************************)
(* The file system the handlers look at (std::fs, std::path).  A directory *)
(* is the sequence of its components; the root is <<>>.                    *)
(***************************************************************************)
DirA == <<"a">>
DirB == <<"b">>
DirP == <<"p">>
Dirs == { <<>>, <<DirA>>, <<DirA, DirB>>, <<DirP>> }
\* Directories without read and search permission (mode 000).
Locked == { <<DirP>> }

Parent(d) == IF d = <<>> THEN <<>> ELSE SubSeq(d, 1, Len(d) - 1)

\* Path resolution of stat(2) from directory cur: "yes" with the directory
\* reached, "no" (ENOENT) or "err" (EACCES).
RECURSIVE Walk(_, _)
Walk(comps, cur) ==
    IF comps = <<>> THEN [res |-> "yes", dir |-> cur]
    ELSE LET c == Head(comps) IN
         IF c = <<>> THEN Walk(Tail(comps), cur)
         ELSE IF cur \in Locked THEN [res |-> "err", dir |-> cur]
         ELSE IF c = <<".">> THEN Walk(Tail(comps), cur)
         ELSE IF c = <<".", ".">> THEN Walk(Tail(comps), Parent(cur))
         ELSE IF (cur \o <<c>>) \in Dirs THEN Walk(Tail(comps), cur \o <<c>>)
         ELSE [res |-> "no", dir |-> cur]

\* stat(2) of a path string; the empty path is ENOENT.  Every path the
\* handlers build is absolute.
Stat(path) ==
    IF path = <<>> THEN [res |-> "no", dir |-> <<>>]
    ELSE Walk(split(path, SLASH), <<>>)

\* Path::try_exists: Ok(true), Ok(false) or Err.
try_exists(path) == Stat(path).res

\* fs::read_dir succeeds on an existing directory that can be read.
read_dir_ok(path) == Stat(path).res = "yes" /\ Stat(path).dir \notin Locked

(***************************************************************************)
(* Session state (ClientOptions, FtpClient).  An Option is <<>> for None   *)
(* and <<v>> for Some(v); a TcpListener is the port it is bound on.        *)
(***************************************************************************)
\* FtpClient::build: the options and the data listener of a new session.
NewClient ==
    [ options |-> [ session             |-> <<>>,
                    working_directory   |-> <<SLASH>>,
                    data_representation |-> "ASCII",
                    local_bytes         |-> 0,
                    listen_mode         |-> "Active" ],
      data_listener |-> <<>> ]

\* Ok((code, message, multilines, CommandReturnType)) of a handler, with the
\* options as the handler leaves them.
Ok(code, msg, multi, ret, opt) ==
    [ok |-> TRUE, code |-> code, msg |-> msg, multi |-> multi, ret |-> ret,
     options |-> opt]

\* Err((code, message)) of a handler, with the options as the handler leaves
\* them.
Err(code, msg, opt) ==
    [ok |-> FALSE, code |-> code, msg |-> msg, multi |-> FALSE, ret |-> <<>>,
     options |-> opt]

\* The verbs handle_connection matches on.
V_USER == <<"U","S","E","R">>
V_SYST == <<"S","Y","S","T">>
V_FEAT == <<"F","E","A","T">>
V_OPTS == <<"O","P","T","S">>
V_PWD  == <<"P","W","D">>
V_TYPE == <<"T","Y","P","E">>
V_PASV == <<"P","A","S","V">>
V_LIST == <<"L","I","S","T">>
V_CWD  == <<"C","W","D">>
V_CDUP == <<"C","D","U","P">>

DotDot == <<".", ".">>
UTF8 == <<"U","T","F","8">>

\* args.for_each(|arg| username.push_str(&format!("{arg} ")))
RECURSIVE JoinArgs(_)
JoinArgs(args) ==
    IF args = <<>> THEN <<>> ELSE Head(args) \o <<SP>> \o JoinArgs(Tail(args))

\* FtpClient::exec_user_command
exec_user_command(opt, args) ==
    LET username == trim(JoinArgs(args))
        session  == [username |-> username, password |-> <<>>]
    IN  Ok(230, "user connected", FALSE, <<>>, [opt EXCEPT !.session = <<session>>])

\* FtpClient::exec_syst_command
exec_syst_command(opt, args) == Ok(215, "UNIX Type: L8", FALSE, <<>>, opt)

\* FtpClient::exec_feat_command
exec_feat_command(opt, args) == Ok(211, "-Features\r\nUTF8", TRUE, <<>>, opt)

\* exec_opts_command accepting any option.
exec_opts_command_any(opt, args) ==
    IF args = <<>> THEN Err(501, "Syntax error in arguments", opt)
    ELSE Ok(202, "UTF8 mode is always ON", FALSE, <<>>, opt)

\* FtpClient::exec_opts_command
exec_opts_command(opt, args) ==
    IF args = <<>> THEN Err(501, "Syntax error in arguments", opt)
    ELSE IF Head(args) = UTF8 THEN Ok(202, "UTF8 mode is always ON", FALSE, <<>>, opt)
    ELSE Err(504, "command not implemented for this option", opt)

\* FtpClient::exec_pwd_command
exec_pwd_command(opt, args) == Ok(257, <<"\"">> \o opt.working_directory \o <<"\"">>, FALSE, <<>>, opt)

Digits == <<"0","1","2","3","4","5","6","7","8","9">>
IsDigit(ch) == \E i \in 1..Len(Digits) : Digits[i] = ch
DigitVal(ch) == (CHOOSE i \in 1..Len(Digits) : Digits[i] = ch) - 1

\* The value of a digit string, accumulated as from_str_radix does: upward
\* for a positive number, downward for a negative one.
RECURSIVE DecVal(_, _)
DecVal(s, sign) ==
    IF s = <<>> THEN 0
    ELSE DecVal(SubSeq(s, 1, Len(s) - 1), sign) * 10 + sign * DigitVal(s[Len(s)])

RECURSIVE StripZeros(_)
StripZeros(s) == IF s # <<>> /\ Head(s) = "0" THEN StripZeros(Tail(s)) ELSE s

\* s <= t for digit strings of the same length.
RECURSIVE DigitsLeq(_, _)
DigitsLeq(s, t) ==
    IF s = <<>> THEN TRUE
    ELSE IF DigitVal(Head(s)) # DigitVal(Head(t)) THEN DigitVal(Head(s)) < DigitVal(Head(t))
    ELSE DigitsLeq(Tail(s), Tail(t))

I32MaxDigits == <<"2","1","4","7","4","8","3","6","4","7">>
I32MinDigits == <<"2","1","4","7","4","8","3","6","4","8">>

\* The checked arithmetic of from_str_radix: no overflow of i32.
FitsI32(digits, negative) ==
    LET d == StripZeros(digits) IN
    \/ Len(d) < Len(I32MaxDigits)
    \/ /\ Len(d) = Len(I32MaxDigits)
       /\ DigitsLeq(d, IF negative THEN I32MinDigits ELSE I32MaxDigits)

\* str::parse::<i32>: an optional sign and at least one digit, the value in
\* the range of i32; <<n>> for Ok(n) and <<>> for Err.
parse_i32(s) ==
    LET signed   == s # <<>> /\ Head(s) \in {"+", "-"}
        negative == signed /\ Head(s) = "-"
        digits   == IF signed THEN Tail(s) ELSE s
    IN  IF /\ digits # <<>>
           /\ \A i \in 1..Len(digits) : IsDigit(digits[i])
           /\ FitsI32(digits, negative)
        THEN <<DecVal(digits, IF negative THEN 0 - 1 ELSE 1)>>
        ELSE <<>>

\* exec_type_command recording the mode Local without its byte size.
exec_type_command_no_size(opt, args) ==
    IF args = <<>> THEN Err(501, "Syntax error in arguments", opt)
    ELSE LET typee == Head(args)
             done(o) == Ok(200, "command OK", FALSE, <<>>, o)
         IN
         IF typee = <<"A">> THEN done([opt EXCEPT !.data_representation = "ASCII"])
         ELSE IF typee = <<"E">> THEN done([opt EXCEPT !.data_representation = "EBCDIC"])
         ELSE IF typee = <<"I">> THEN done([opt EXCEPT !.data_representation = "Image"])
         ELSE IF typee = <<"L">> THEN
             IF Len(args) >= 2
             THEN LET local == [opt EXCEPT !.data_representation = "Local"]
                  IN  IF parse_i32(args[2]) # <<>>
                      THEN done(local)
                      ELSE Err(501, "Syntax error in arguments", local)
             ELSE Err(501, "Syntax error in arguments", opt)
         ELSE Err(504, "command not implemented for this option", opt)

\* FtpClient::exec_type_command
exec_type_command(opt, args) ==
    IF args = <<>> THEN Err(501, "Syntax error in arguments", opt)
    ELSE LET typee == Head(args)
             done(o) == Ok(200, "command OK", FALSE, <<>>, o)
         IN
         IF typee = <<"A">> THEN done([opt EXCEPT !.data_representation = "ASCII"])
         ELSE IF typee = <<"E">> THEN done([opt EXCEPT !.data_representation = "EBCDIC"])
         ELSE IF typee = <<"I">> THEN done([opt EXCEPT !.data_representation = "Image"])
         ELSE IF typee = <<"L">> THEN
             IF Len(args) >= 2
             THEN LET local == [opt EXCEPT !.data_representation = "Local"]
                      size  == parse_i32(args[2])
                  IN  IF size # <<>>
                      THEN done([local EXCEPT !.local_bytes = size[1]])
                      ELSE Err(501, "Syntax error in arguments", local)
             ELSE Err(501, "Syntax error in arguments", opt)
         ELSE Err(504, "command not implemented for this option", opt)

\* The port range exec_pasv_command scans: for p in 7000..65535.
PortLow == 7000
PortEnd == 65535

\* CONFIG.get().unwrap().get_hostname()
Hostname == <<"1","2","7",".","0",".","0",".","1">>

\* str::replace(".", ",")
replace_dots(s) == [i \in 1..Len(s) |-> IF s[i] = "." THEN "," ELSE s[i]]

\* A bind that succeeds on a port this process already listens on.
CanBind_reuse(p, busy) == p >= busy.below

\* TcpListener::bind on port p succeeds.  busy tells which ports are in use:
\* every port below busy.below (other processes) and the ports of busy.ports
\* (the listeners of this process).
CanBind(p, busy) == p >= busy.below /\ p \notin busy.ports

\* The scan downward from p: the highest port on which bind succeeds.
RECURSIVE LastBindable(_, _)
LastBindable(p, busy) ==
    IF p < PortLow THEN <<>>
    ELSE IF CanBind(p, busy) THEN <<p>>
    ELSE LastBindable(IF p < busy.below THEN PortLow - 1 ELSE p - 1, busy)

\* The loop of exec_pasv_command without its break: the listener of the
\* last port that binds is the one kept.
FirstBindable_no_break(p, busy) == LastBindable(PortEnd - 1, busy)

\* The loop of exec_pasv_command: the first port from p upward on which
\* TcpListener::bind succeeds, <<>> when the range is exhausted.  The turns
\* over the ports below busy.below, which all fail alike, are taken at once.
RECURSIVE FirstBindable(_, _)
FirstBindable(p, busy) ==
    IF p >= PortEnd THEN <<>>
    ELSE IF CanBind(p, busy) THEN <<p>>
    ELSE FirstBindable(IF p < busy.below THEN busy.below ELSE p + 1, busy)

\* exec_pasv_command taking the low octet of the port modulo 255.
exec_pasv_command_mod_255(opt, args, busy) ==
    LET passive       == [opt EXCEPT !.listen_mode = "Passive"]
        data_listener == FirstBindable(PortLow, busy)
    IN  IF data_listener # <<>>
        THEN LET port == data_listener[1]
                 p1   == port \div 256
                 p2   == port % 255
             IN  Ok(227, <<replace_dots(Hostname), p1, p2>>, FALSE, data_listener, passive)
        ELSE Err(425, "cannot open data connection", passive)

\* FtpClient::exec_pasv_command; busy tells the ports already bound.
exec_pasv_command(opt, args, busy) ==
    LET passive       == [opt EXCEPT !.listen_mode = "Passive"]
        data_listener == FirstBindable(PortLow, busy)
    IN  IF data_listener # <<>>
        THEN LET port == data_listener[1]
                 p1   == port \div 256
                 p2   == port - (p1 * 256)
             IN  Ok(227, <<replace_dots(Hostname), p1, p2>>, FALSE, data_listener, passive)
        ELSE Err(425, "cannot open data connection", passive)

\* exec_cwd_command storing the path before it is known to exist.
exec_cwd_command_store_first(opt, args) ==
    IF args = <<>> THEN Err(501, "missing pathname", opt)
    ELSE LET arg  == Head(args)
             wd   == trim_end_matches(opt.working_directory, SLASH)
             idx  == rfind(wd, SLASH)
             path == IF ~starts_with(arg, SLASH)
                     THEN IF arg = DotDot
                          THEN IF idx > 0 THEN SubSeq(wd, 1, idx) ELSE <<SLASH>>
                          ELSE trim_end_matches(wd \o <<SLASH>> \o arg, SLASH)
                     ELSE arg
             moved == [opt EXCEPT !.working_directory = path]
         IN  CASE try_exists(path) = "no"  -> Err(550, path, moved)
               [] try_exists(path) = "err" -> Err(450, "error", moved)
               [] OTHER -> Ok(250, "ok", FALSE, <<>>, moved)

\* exec_cwd_command joining the working directory and a relative path with
\* no separator between them.
exec_cwd_command_no_sep(opt, args) ==
    IF args = <<>> THEN Err(501, "missing pathname", opt)
    ELSE LET arg  == Head(args)
             wd   == trim_end_matches(opt.working_directory, SLASH)
             idx  == rfind(wd, SLASH)
             path == IF ~starts_with(arg, SLASH)
                     THEN IF arg = DotDot
                          THEN IF idx > 0 THEN SubSeq(wd, 1, idx) ELSE <<SLASH>>
                          ELSE trim_end_matches(wd \o arg, SLASH)
                     ELSE arg
         IN  CASE try_exists(path) = "no"  -> Err(550, path, opt)
               [] try_exists(path) = "err" -> Err(450, "error", opt)
               [] OTHER -> Ok(250, "ok", FALSE, <<>>,
                              [opt EXCEPT !.working_directory = path])

\* exec_cwd_command joining the working directory and a relative path
\* without stripping the trailing separators.
exec_cwd_command_no_strip(opt, args) ==
    IF args = <<>> THEN Err(501, "missing pathname", opt)
    ELSE LET arg  == Head(args)
             wd   == opt.working_directory
             idx  == rfind(wd, SLASH)
             path == IF ~starts_with(arg, SLASH)
                     THEN IF arg = DotDot
                          THEN IF idx > 0 THEN SubSeq(wd, 1, idx) ELSE <<SLASH>>
                          ELSE wd \o <<SLASH>> \o arg
                     ELSE arg
         IN  CASE try_exists(path) = "no"  -> Err(550, path, opt)
               [] try_exists(path) = "err" -> Err(450, "error", opt)
               [] OTHER -> Ok(250, "ok", FALSE, <<>>,
                              [opt EXCEPT !.working_directory = path])

\* FtpClient::exec_cwd_command
exec_cwd_command(opt, args) ==
    IF args = <<>> THEN Err(501, "missing pathname", opt)
    ELSE LET arg  == Head(args)
             wd   == trim_end_matches(opt.working_directory, SLASH)
             idx  == rfind(wd, SLASH)
             path == IF ~starts_with(arg, SLASH)
                     THEN IF arg = DotDot
                          THEN IF idx > 0 THEN SubSeq(wd, 1, idx) ELSE <<SLASH>>
                          ELSE trim_end_matches(wd \o <<SLASH>> \o arg, SLASH)
                     ELSE arg
         IN  CASE try_exists(path) = "no"  -> Err(550, path, opt)
               [] try_exists(path) = "err" -> Err(450, "error", opt)
               [] OTHER -> Ok(250, "ok", FALSE, <<>>,
                              [opt EXCEPT !.working_directory = path])

\* FtpClient::exec_cdup_command
exec_cdup_command(opt, args) == exec_cwd_command(opt, <<DotDot>>)

\* FtpClient::exec_list_command up to its blocking accept: "panic" when
\* unwrap meets no data listener, "550" when read_dir fails, and otherwise
\* "accept" after 150 was written on the control connection.
exec_list_command_open(cl) ==
    IF cl.data_listener = <<>> THEN "panic"
    ELSE IF ~read_dir_ok(cl.options.working_directory) THEN "550"
    ELSE "accept"

\* FtpClient::exec_list_command from its accept on: what it writes on the
\* control connection itself, and its result.  The listener is borrowed
\* (as_ref), not taken: the session keeps it.
exec_list_command_accept(cl, accepted) ==
    IF accepted
    THEN [wrote |-> <<226>>, result |-> Ok(250, "ok", FALSE, <<>>, cl.options)]
    ELSE [wrote |-> <<>>, result |-> Err(425, "cannot open data connection", cl.options)]

(***************************************************************************)
(* Request lines the clients send, as they arrive on the wire.             *)
(***************************************************************************)
RECURSIVE Join(_)
Join(tokens) ==
    IF Len(tokens) = 1 THEN Head(tokens)
    ELSE Head(tokens) \o <<SP>> \o Join(Tail(tokens))

Line(tokens) == Join(tokens) \o <<CR, LF>>

Lines ==
    { Line(<<V_LIST>>),
      Line(<< <<"l","i","s","t">> >>),
      Line(<<V_PASV>>),
      <<CR, LF>>,
      Line(<<V_PWD>>),
      Line(<<V_CWD>>),
      Line(<<V_CWD, DotDot>>),
      Line(<<V_CWD, <<".">> >>),
      Line(<<V_CWD, DirA>>),
      Line(<<V_CWD, DirB>>),
      Line(<<V_CWD, <<"z">> >>),
      Line(<<V_CWD, <<SLASH>> \o DirA \o <<SLASH>> >>),
      Line(<<V_CWD, <<SLASH>> >>),
      Line(<<V_CWD, <<>>, DirA>>),
      Line(<<V_CWD, <<SLASH>> \o DirP>>),
      Line(<<V_CDUP>>),
      Line(<< <<"N","O","O","P">> >>) }

\* The request lines of a session that sets its options.
SettingLines ==
    { Line(<<V_LIST>>),
      Line(<<V_PASV>>),
      Line(<<V_USER, <<"u">> >>),
      Line(<<V_CWD, DirA>>),
      Line(<<V_TYPE>>),
      Line(<<V_TYPE, <<"A">> >>),
      Line(<<V_TYPE, <<"E">> >>),
      Line(<<V_TYPE, <<"I">> >>),
      Line(<<V_TYPE, <<"L">> >>),
      Line(<<V_TYPE, <<"L">>, <<"8">> >>),
      Line(<<V_TYPE, <<"L">>, I32MinDigits>>),
      Line(<<V_TYPE, <<"L">>, <<"x">> >>),
      Line(<<V_TYPE, <<"Z">> >>),
      Line(<<V_OPTS>>),
      Line(<<V_OPTS, UTF8>>),
      Line(<<V_OPTS, <<"F","O","O">> >>),
      Line(<< <<"p","w","d">> >>),
      Line(<< <<"N","O","O","P">> >>),
      Line(<< <<"q","u","i","t">> >>) }

\* The request lines sent where several connections are served at once.
PoolLines ==
    { Line(<<V_LIST>>),
      Line(<<V_PASV>>),
      Line(<< <<"N","O","O","P">> >>) }

(***************************************************************************)
(* State.                                                                  *)
(***************************************************************************)
VARIABLES
    proc,      \* the process: "start", "running", "exited" or "crashed"
    shutdown,  \* FtpServer.shutdown, the flag the signal thread sets
    sigpc,     \* the signal thread: "wait" for a signal, or "connect" once it
               \* has stored the flag
    selfConn,  \* the signal thread's throwaway connection waits in the backlog
    server,    \* the server thread: "none", "accepting", "joining", "returned"
    joinIdx,   \* Drop for ThreadPool: the worker being joined
    sender,    \* ThreadPool.sender is Some
    queue,     \* the jobs in the mpsc channel, oldest first
    lock,      \* the Mutex around the Receiver: <<>> or <<worker>>
    size,      \* the argument ThreadPool::build was called with
    wpc,       \* per worker: "lock", "recv", "job", "exited", "panicked"
    wjob,      \* per worker: <<>> or <<connection>> of the job it runs
    accepted,  \* number of client connections the acceptor has taken
    conn,      \* per connection: where its job is
    ran,       \* per connection: how many times a worker started its job
    client,    \* per connection: the FtpClient (options, data_listener)
    req,       \* per connection: the line read_line read last, as received
    ctl,       \* per connection: reply codes written on the control
               \* connection since that line was read
    nreq,      \* request lines sent so far
    closed     \* per connection: the ports of the data listener closed by
               \* the drop of its FtpClient

vars == <<proc, shutdown, sigpc, selfConn, server, joinIdx, sender, queue, lock, size,
          wpc, wjob, accepted, conn, ran, client, req, ctl, nreq, closed>>

poolVars == <<sender, queue, lock, size, wpc, wjob>>
serverVars == <<shutdown, sigpc, selfConn, server, joinIdx, accepted>>
connVars == <<conn, ran, client, req, ctl, nreq, closed>>

Conns == 1..MaxConns
Workers == 1..size

Init ==
    /\ proc = "start"
    /\ shutdown = FALSE
    /\ sigpc = "wait"
    /\ selfConn = FALSE
    /\ server = "none"
    /\ joinIdx = 1
    /\ sender = FALSE
    /\ queue = <<>>
    /\ lock = <<>>
    /\ size = 0
    /\ wpc = <<>>
    /\ wjob = <<>>
    /\ accepted = 0
    /\ conn = [c \in Conns |-> "none"]
    /\ ran = [c \in Conns |-> 0]
    /\ client = [c \in Conns |-> NewClient]
    /\ req = [c \in Conns |-> <<>>]
    /\ ctl = [c \in Conns |-> <<>>]
    /\ nreq = 0
    /\ closed = [c \in Conns |-> {}]

(***************************************************************************)
(* thread_pool.rs                                                          *)
(***************************************************************************)
\* ThreadPool::build without its assert: a pool is made for any n.
build_unchecked(n) ==
    /\ proc = "start"
    /\ proc' = "running"
    /\ size' = n
    /\ wpc' = [w \in 1..n |-> "lock"]
    /\ wjob' = [w \in 1..n |-> <<>>]
    /\ sender' = TRUE
    /\ server' = "accepting"
    /\ UNCHANGED <<shutdown, sigpc, selfConn, joinIdx, queue, lock, accepted>>
    /\ UNCHANGED <<conn, ran, client, req, ctl, nreq, closed>>

\* ThreadPool::build(n), called by FtpServer::start on the main thread.  The
\* assert panics on 0 before anything is created; otherwise n workers are
\* spawned on one channel and the server thread starts accepting.
build(n) ==
    /\ proc = "start"
    /\ IF n > 0
       THEN /\ proc' = "running"
            /\ size' = n
            /\ wpc' = [w \in 1..n |-> "lock"]
            /\ wjob' = [w \in 1..n |-> <<>>]
            /\ sender' = TRUE
            /\ server' = "accepting"
       ELSE /\ proc' = "crashed"
            /\ size' = n
            /\ UNCHANGED <<wpc, wjob, sender, server>>
    /\ UNCHANGED <<shutdown, sigpc, selfConn, joinIdx, queue, lock, accepted>>
    /\ UNCHANGED connVars

\* Worker loop: receiver.lock().unwrap()
Worker_lock(w) ==
    /\ proc = "running"
    /\ wpc[w] = "lock"
    /\ lock = <<>>
    /\ lock' = <<w>>
    /\ wpc' = [wpc EXCEPT ![w] = "recv"]
    /\ UNCHANGED <<proc, sender, queue, size, wjob>>
    /\ UNCHANGED serverVars
    /\ UNCHANGED connVars

\* A receive that leaves the job in the channel.
Dequeue_keep(q) == q

\* What recv does to the channel: the oldest job leaves it.
Dequeue(q) == Tail(q)

\* The worker keeping the guard of the mutex while it runs the job.
Worker_recv_job_hold(w, start) ==
    /\ proc = "running"
    /\ wpc[w] = "recv"
    /\ queue # <<>>
    /\ LET c == Head(queue) IN
       /\ queue' = Dequeue(queue)
       /\ ran' = [ran EXCEPT ![c] = @ + 1]
       /\ IF start = "ok"
          THEN /\ wpc' = [wpc EXCEPT ![w] = "job"]
               /\ wjob' = [wjob EXCEPT ![w] = <<c>>]
               /\ conn' = [conn EXCEPT ![c] = "serving"]
               /\ ctl' = [ctl EXCEPT ![c] = <<220>>]
               /\ lock' = lock
          ELSE /\ wpc' = [wpc EXCEPT ![w] = "lock"]
               /\ wjob' = wjob
               /\ conn' = [conn EXCEPT ![c] = start]
               /\ ctl' = ctl
               /\ lock' = <<>>
    /\ UNCHANGED <<proc, sender, size, client, req, nreq, closed>>
    /\ UNCHANGED serverVars

\* Worker loop: recv() returns Ok(job), the guard of the mutex is dropped,
\* and job() runs handle_connection up to its first read_line: FtpClient::build
\* and the greeting, either of which can fail and end the job.
Worker_recv_job(w, start) ==
    /\ proc = "running"
    /\ wpc[w] = "recv"
    /\ queue # <<>>
    /\ LET c == Head(queue) IN
       /\ queue' = Dequeue(queue)
       /\ lock' = <<>>
       /\ ran' = [ran EXCEPT ![c] = @ + 1]
       /\ IF start = "ok"
          THEN /\ wpc' = [wpc EXCEPT ![w] = "job"]
               /\ wjob' = [wjob EXCEPT ![w] = <<c>>]
               /\ conn' = [conn EXCEPT ![c] = "serving"]
               /\ ctl' = [ctl EXCEPT ![c] = <<220>>]
          ELSE /\ wpc' = [wpc EXCEPT ![w] = "lock"]
               /\ wjob' = wjob
               /\ conn' = [conn EXCEPT ![c] = start]
               /\ ctl' = ctl
    /\ UNCHANGED <<proc, sender, size, client, req, nreq, closed>>
    /\ UNCHANGED serverVars

\* Worker loop: recv() returns Err once the sender is dropped and the channel
\* is empty; the worker breaks out of its loop.
Worker_recv_disconnected(w) ==
    /\ proc = "running"
    /\ wpc[w] = "recv"
    /\ queue = <<>>
    /\ ~sender
    /\ wpc' = [wpc EXCEPT ![w] = "exited"]
    /\ lock' = <<>>
    /\ UNCHANGED <<proc, sender, queue, size, wjob>>
    /\ UNCHANGED serverVars
    /\ UNCHANGED connVars

\* The Receiver lives in an Arc held by the worker threads only: it is
\* dropped with the last of them, and send fails from then on.
ReceiverAlive == \E w \in Workers : wpc[w] \notin {"exited", "panicked"}

\* execute putting the job ahead of those that wait in the channel.
execute_front(c) ==
    IF ReceiverAlive
    THEN /\ queue' = <<c>> \o queue
         /\ conn' = [conn EXCEPT ![c] = "queued"]
         /\ proc' = proc
    ELSE /\ proc' = "crashed"
         /\ UNCHANGED <<queue, conn>>

\* ThreadPool::execute: send(job).unwrap()
execute(c) ==
    IF ReceiverAlive
    THEN /\ queue' = Append(queue, c)
         /\ conn' = [conn EXCEPT ![c] = "queued"]
         /\ proc' = proc
    ELSE /\ proc' = "crashed"
         /\ UNCHANGED <<queue, conn>>

\* Drop for ThreadPool, after the sender was dropped: join().unwrap() on the
\* workers in order.  A worker that exited is joined; a worker that
\* panicked makes unwrap panic in the server thread, and the unwrap of
\* server_thread.join() in FtpServer::start then takes the process down.
\* After the last join, start and run return and the process exits.
ThreadPool_drop_join ==
    /\ proc = "running"
    /\ server = "joining"
    /\ wpc[joinIdx] \in {"exited", "panicked"}
    /\ IF wpc[joinIdx] = "panicked"
       THEN /\ proc' = "crashed"
            /\ UNCHANGED <<server, joinIdx>>
       ELSE IF joinIdx = size
       THEN /\ proc' = "exited"
            /\ server' = "returned"
            /\ joinIdx' = joinIdx
       ELSE /\ joinIdx' = joinIdx + 1
            /\ UNCHANGED <<proc, server>>
    /\ UNCHANGED <<shutdown, sigpc, selfConn, accepted>>
    /\ UNCHANGED poolVars
    /\ UNCHANGED connVars

(***************************************************************************)
(* lib.rs and FtpServer::start                                             *)
(***************************************************************************)
\* The signal thread of run, woken by SIGINT or SIGTERM: the flag is stored.
\* The thread is followed through the first signal: with the flag set the
\* acceptor takes one connection at most, and a later signal, which stores
\* the same value and connects again, changes nothing it can observe.
Signal ==
    /\ proc = "running"
    /\ sigpc = "wait"
    /\ ~shutdown
    /\ shutdown' = TRUE
    /\ sigpc' = "connect"
    /\ UNCHANGED <<proc, selfConn, server, joinIdx, accepted>>
    /\ UNCHANGED poolVars
    /\ UNCHANGED connVars

\* The signal thread going back to wait for a signal without connecting.
Signal_no_connect ==
    /\ proc = "running"
    /\ sigpc = "connect"
    /\ sigpc' = "wait"
    /\ UNCHANGED <<proc, shutdown, selfConn, server, joinIdx, accepted>>
    /\ UNCHANGED poolVars
    /\ UNCHANGED connVars

\* The signal thread of run, after the store: TcpStream::connect to the
\* server's own address.  The connection waits in the backlog of the
\* listener, and the thread goes back to waiting for a signal.
Signal_connect ==
    /\ proc = "running"
    /\ sigpc = "connect"
    /\ selfConn' = TRUE
    /\ sigpc' = "wait"
    /\ UNCHANGED <<proc, shutdown, server, joinIdx, accepted>>
    /\ UNCHANGED poolVars
    /\ UNCHANGED connVars

\* One turn of `for client in server.incoming()`.  kind is what incoming
\* yields: "client" a client's stream, "client_err" an Err for a client's
\* connection, "self" the signal thread's connection; maxConns bounds the
\* clients that connect.  With the flag set the closure returns, which drops
\* the pool: the sender is dropped and the joins begin.
Accept(kind, maxConns) ==
    /\ proc = "running"
    /\ server = "accepting"
    /\ IF kind = "self" THEN selfConn ELSE accepted < maxConns
    /\ LET c == accepted + 1 IN
       /\ selfConn' = IF kind = "self" THEN FALSE ELSE selfConn
       /\ accepted' = IF kind = "self" THEN accepted ELSE c
       /\ IF shutdown
          THEN /\ server' = "joining"
               /\ sender' = FALSE
               /\ conn' = IF kind = "self" THEN conn
                          ELSE [conn EXCEPT ![c] = "refused"]
               /\ UNCHANGED <<proc, queue>>
          ELSE IF kind = "client_err"
          THEN /\ conn' = [conn EXCEPT ![c] = "failed"]
               /\ UNCHANGED <<proc, server, sender, queue>>
          ELSE /\ execute(c)
               /\ UNCHANGED <<server, sender>>
    /\ UNCHANGED <<shutdown, sigpc, joinIdx, lock, size, wpc, wjob>>
    /\ UNCHANGED <<ran, client, req, ctl, nreq, closed>>

(***************************************************************************)
(* handle_connection                                                       *)
(***************************************************************************)
ServingWorker(c) == CHOOSE w \in Workers : wjob[w] = <<c>>

\* Ports on which a TcpListener of this process is bound.
BoundPorts ==
    { client[k].data_listener[1] : k \in {j \in Conns : client[j].data_listener # <<>>} }

\* What other processes hold of the range exec_pasv_command scans, at the
\* time of a request: every port below held.  Nothing, all but the last
\* port, or the whole range.
HeldChoices == { PortLow, PortEnd - 1, PortEnd }

\* Only PASV binds: for any other request line what other processes hold
\* is of no effect, and one choice stands for all.
HeldFor(line, helds) ==
    IF to_uppercase(Head(split(trim(line), SP))) = V_PASV THEN helds ELSE {PortLow}

\* The ports on which TcpListener::bind fails: those of other processes and
\* those of this one.
Busy(held) == [below |-> held, ports |-> BoundPorts]

\* The ports of the data listener an FtpClient holds.
ListenerPorts(cl) ==
    IF cl.data_listener = <<>> THEN {} ELSE {cl.data_listener[1]}

\* The job of connection c ending with the FtpClient left as it is: its
\* data listener stays bound.
JobEnds_leak(c, status, how) ==
    /\ conn' = [conn EXCEPT ![c] = status]
    /\ wpc' = [wpc EXCEPT ![ServingWorker(c)] = how]
    /\ wjob' = [wjob EXCEPT ![ServingWorker(c)] = <<>>]
    /\ UNCHANGED <<client, closed>>

\* The job of connection c is over: handle_connection returned (how = "lock",
\* the worker loops) or panicked (how = "panicked", the worker thread
\* unwinds).  Either way the FtpClient is dropped, and its data listener
\* with it.
JobEnds(c, status, how) ==
    /\ conn' = [conn EXCEPT ![c] = status]
    /\ wpc' = [wpc EXCEPT ![ServingWorker(c)] = how]
    /\ wjob' = [wjob EXCEPT ![ServingWorker(c)] = <<>>]
    /\ client' = [client EXCEPT ![c] = NewClient]
    /\ closed' = [closed EXCEPT ![c] = @ \cup ListenerPorts(client[c])]

\* The match of handle_connection with a default arm that starts the options
\* of the session afresh.
Dispatch_unknown_resets(command, cl, it_args, busy) ==
    CASE command = V_USER -> exec_user_command(cl.options, it_args)
      [] command = V_SYST -> exec_syst_command(cl.options, it_args)
      [] command = V_FEAT -> exec_feat_command(cl.options, it_args)
      [] command = V_OPTS -> exec_opts_command(cl.options, it_args)
      [] command = V_PWD  -> exec_pwd_command(cl.options, it_args)
      [] command = V_TYPE -> exec_type_command(cl.options, it_args)
      [] command = V_PASV -> exec_pasv_command(cl.options, it_args, busy)
      [] command = V_CWD  -> exec_cwd_command(cl.options, it_args)
      [] command = V_CDUP -> exec_cdup_command(cl.options, it_args)
      [] OTHER -> Err(502, "no implementation", NewClient.options)

\* The match on the verb in handle_connection, for every verb but LIST.
Dispatch(command, cl, it_args, busy) ==
    CASE command = V_USER -> exec_user_command(cl.options, it_args)
      [] command = V_SYST -> exec_syst_command(cl.options, it_args)
      [] command = V_FEAT -> exec_feat_command(cl.options, it_args)
      [] command = V_OPTS -> exec_opts_command(cl.options, it_args)
      [] command = V_PWD  -> exec_pwd_command(cl.options, it_args)
      [] command = V_TYPE -> exec_type_command(cl.options, it_args)
      [] command = V_PASV -> exec_pasv_command(cl.options, it_args, busy)
      [] command = V_CWD  -> exec_cwd_command(cl.options, it_args)
      [] command = V_CDUP -> exec_cdup_command(cl.options, it_args)
      [] OTHER -> Err(502, "no implementation", cl.options)

\* The arm of "PASV" storing what the handler returns, a listener or none.
StoreListener_always(command, cl, r) ==
    IF command = V_PASV THEN r.ret ELSE cl.data_listener

\* The arm of "PASV": the listener the handler returns replaces the stored
\* one.  Every other arm leaves FtpClient.data_listener alone.
StoreListener(command, cl, r) ==
    IF command = V_PASV /\ r.ok THEN r.ret ELSE cl.data_listener

\* One turn of the loop of handle_connection on the line read_line received
\* (raw; <<>> when the read returned no bytes): trim, the emptiness test,
\* split, to_uppercase, the handler, and the write of the reply.  held is
\* what other processes hold of the port range at that time.
handle_line(c, raw, held) ==
    LET request == trim(raw) IN
    /\ req' = [req EXCEPT ![c] = raw]
    /\ IF request = <<>>
       THEN /\ JobEnds(c, "eof", "lock")
            /\ ctl' = [ctl EXCEPT ![c] = <<>>]
       ELSE LET args    == split(request, SP)
                command == to_uppercase(Head(args))
                it_args == Tail(args)
            IN
            IF command = V_LIST
            THEN LET open == exec_list_command_open(client[c]) IN
                 CASE open = "panic" ->
                        /\ JobEnds(c, "panicked", "panicked")
                        /\ ctl' = [ctl EXCEPT ![c] = <<>>]
                   [] open = "550" ->
                        /\ ctl' = [ctl EXCEPT ![c] = <<550>>]
                        /\ UNCHANGED <<conn, wpc, wjob, client, closed>>
                   [] OTHER ->
                        /\ ctl' = [ctl EXCEPT ![c] = <<150>>]
                        /\ conn' = [conn EXCEPT ![c] = "accepting"]
                        /\ UNCHANGED <<wpc, wjob, client, closed>>
            ELSE LET r == Dispatch(command, client[c], it_args, Busy(held)) IN
                 /\ client' = [client EXCEPT ![c] =
                        [options |-> r.options,
                         data_listener |-> StoreListener(command, client[c], r)]]
                 /\ ctl' = [ctl EXCEPT ![c] = <<r.code>>]
                 /\ UNCHANGED <<conn, wpc, wjob, closed>>

\* A client sends a request line and the blocked read_line returns it;
\* maxRequests bounds the lines sent.
Request(c, line, held, maxRequests) ==
    /\ proc = "running"
    /\ conn[c] = "serving"
    /\ nreq < maxRequests
    /\ nreq' = nreq + 1
    /\ handle_line(c, line, held)
    /\ UNCHANGED <<proc, sender, queue, lock, size, ran>>
    /\ UNCHANGED serverVars

\* The peer closes the control connection: read_line returns Ok with no
\* bytes read.
PeerClose(c) ==
    /\ proc = "running"
    /\ conn[c] = "serving"
    /\ handle_line(c, <<>>, PortLow)
    /\ UNCHANGED <<proc, sender, queue, lock, size, ran, nreq>>
    /\ UNCHANGED serverVars

\* read_line returns Err: handle_connection returns.
ReadError(c) ==
    /\ proc = "running"
    /\ conn[c] = "serving"
    /\ JobEnds(c, "readerr", "lock")
    /\ req' = [req EXCEPT ![c] = <<>>]
    /\ ctl' = [ctl EXCEPT ![c] = <<>>]
    /\ UNCHANGED <<proc, sender, queue, lock, size, ran, nreq>>
    /\ UNCHANGED serverVars

\* The end of exec_list_command with one ClientOptions shared by the
\* sessions of every connection.
ListAccept_shared(c, accepted_ok) ==
    /\ proc = "running"
    /\ conn[c] = "accepting"
    /\ LET a == exec_list_command_accept(client[c], accepted_ok) IN
       /\ ctl' = [ctl EXCEPT ![c] = @ \o a.wrote \o <<a.result.code>>]
       /\ client' = [k \in Conns |-> [client[k] EXCEPT !.options = a.result.options]]
    /\ conn' = [conn EXCEPT ![c] = "serving"]
    /\ UNCHANGED <<proc, ran, req, nreq, closed>>
    /\ UNCHANGED poolVars
    /\ UNCHANGED serverVars

\* exec_list_command blocked in data_listener.accept(): a peer connects to
\* the data port (accepted) or accept fails.  The handler finishes and
\* handle_connection writes the reply.
ListAccept(c, accepted_ok) ==
    /\ proc = "running"
    /\ conn[c] = "accepting"
    /\ LET a == exec_list_command_accept(client[c], accepted_ok) IN
       /\ ctl' = [ctl EXCEPT ![c] = @ \o a.wrote \o <<a.result.code>>]
       /\ client' = [client EXCEPT ![c].options = a.result.options]
    /\ conn' = [conn EXCEPT ![c] = "serving"]
    /\ UNCHANGED <<proc, ran, req, nreq, closed>>
    /\ UNCHANGED poolVars
    /\ UNCHANGED serverVars

\* The steps of the program, with the pool sizes given to build, the number
\* of clients that connect, the request lines they send and what other
\* processes hold of the port range.
NextOver(sizes, maxConns, lines, helds, maxRequests) ==
    \/ \E n \in sizes : build(n)
    \/ \E w \in Workers : Worker_lock(w)
    \/ \E w \in Workers, start \in {"ok", "builderr", "greeterr"} : Worker_recv_job(w, start)
    \/ \E w \in Workers : Worker_recv_disconnected(w)
    \/ ThreadPool_drop_join
    \/ Signal
    \/ Signal_connect
    \/ \E kind \in {"client", "client_err", "self"} : Accept(kind, maxConns)
    \/ \E c \in Conns, line \in lines :
          \E held \in HeldFor(line, helds) : Request(c, line, held, maxRequests)
    \/ \E c \in Conns : PeerClose(c)
    \/ \E c \in Conns : ReadError(c)
    \/ \E c \in Conns, ok \in BOOLEAN : ListAccept(c, ok)

\* Several connections served by pools of every size up to MaxPoolSize.
Next == NextOver(0..MaxPoolSize, MaxConns, PoolLines, {PortLow}, MaxRequests)

Spec == Init /\ [][Next]_vars

\* Several connections served by a pool of one worker.
NextShutdown == NextOver({1}, MaxConns, PoolLines, {PortLow}, MaxRequests)

\* The same, with the threads of the shutdown scheduled: the signal thread,
\* once woken, reaches its connect, and the server thread, blocked in accept,
\* returns from it when that connection is in the backlog.
SpecShutdown ==
    /\ Init /\ [][NextShutdown]_vars
    /\ WF_vars(Signal_connect)
    /\ WF_vars(Accept("self", MaxConns))

\* Several connections served by a pool of one worker, with the worker
\* threads scheduled: a worker that can take the lock, or that holds it with
\* a job in the channel, goes on.  Every connection being handled ends: its
\* peer closes it, and the accept a LIST blocks in returns.
SpecWorkers ==
    /\ Init /\ [][NextShutdown]_vars
    /\ \A w \in 1..MaxPoolSize :
          /\ WF_vars(w \in Workers /\ Worker_lock(w))
          /\ WF_vars(w \in Workers /\ \E start \in {"ok", "builderr", "greeterr"} :
                                          Worker_recv_job(w, start))
    /\ \A c \in Conns :
          /\ WF_vars(PeerClose(c))
          /\ WF_vars(\E ok \in BOOLEAN : ListAccept(c, ok))

\* One session, served by a pool of one worker, sending any of the lines.
NextSession == NextOver({1}, 1, Lines, HeldChoices, MaxSessionRequests)

SpecSession == Init /\ [][NextSession]_vars

\* One session, served by a pool of one worker, setting its options.
NextSetting == NextOver({1}, 1, SettingLines, HeldChoices, MaxSettingRequests)

SpecSetting == Init /\ [][NextSetting]_vars

(***************************************************************************)
(* Properties.                                                             *)
(***************************************************************************)
\* Connections whose job was sent into the channel by execute.
Submitted == {c \in Conns : conn[c] \notin {"none", "failed", "refused"}}
\* Connections a worker is handling: between the greeting and the end of
\* the loop.
Handled == {c \in Conns : conn[c] \in {"serving", "accepting"}}
\* The process is over: start returned after the drop of the pool, or a panic
\* took the process down.
Ended == proc \in {"exited", "crashed"}

\* C1: every job submitted with execute is run exactly once by exactly one
\* worker: never twice, never by two workers, and never left unrun once the
\* pool has been dropped.
C1_EachJobRunExactlyOnce ==
    /\ \A c \in Conns : ran[c] <= 1
    /\ \A c \in Conns : Cardinality({w \in Workers : wjob[w] = <<c>>}) <= 1
    /\ (Ended /\ size > 0) => \A c \in Submitted : ran[c] = 1

\* C2: the drop of the pool returns only after every submitted job has
\* completed and every worker has terminated; a worker leaves its loop only
\* when the sender is dropped and the channel is empty; no queued job is
\* dropped.
C2_DropDrainsAndJoins ==
    /\ server = "returned" =>
          /\ \A w \in Workers : wpc[w] = "exited"
          /\ \A c \in Submitted : ran[c] = 1 /\ c \notin Handled
    /\ \A w \in Workers : wpc[w] \in {"exited", "panicked"} => (~sender /\ queue = <<>>)
    /\ Ended => \A c \in Conns : conn[c] # "queued"

\* C3: ThreadPool::build(0) is rejected eagerly: no worker is spawned, no
\* channel accepting jobs exists, no pool is returned (the server thread
\* never runs and no connection is accepted).
C3_ZeroSizeRejected ==
    (proc # "start" /\ size = 0) =>
        /\ proc = "crashed"
        /\ wpc = <<>> /\ wjob = <<>>
        /\ ~sender /\ queue = <<>>
        /\ server = "none" /\ accepted = 0

\* C3 witness: build was called with 0.
C3_Witness == proc = "crashed" /\ size = 0

\* C4: the connections handled at the same time are at most the pool size;
\* each of them occupies exactly one worker, which runs its job, and no
\* worker holds two; a connection accepted and not yet taken by a worker
\* waits in the queue.
C4_HandledWithinPoolSize ==
    /\ Cardinality(Handled) <= size
    /\ \A c \in Handled :
          /\ Cardinality({w \in Workers : wjob[w] = <<c>>}) = 1
          /\ \A w \in Workers : wjob[w] = <<c>> => wpc[w] = "job"
    /\ \A w \in Workers : wpc[w] = "job" => (wjob[w] # <<>> /\ wjob[w][1] \in Handled)
    /\ \A c \in Conns :
          conn[c] = "queued" <=>
              (\E i \in 1..Len(queue) : queue[i] = c) /\ c \notin Handled
    /\ \A i, j \in 1..Len(queue) : queue[i] = queue[j] => i = j

\* C4 witness: every worker is busy with a connection and another accepted
\* connection waits in the queue.
C4_Witness ==
    /\ proc = "running" /\ size > 0
    /\ \A w \in Workers : wpc[w] = "job"
    /\ Cardinality(Handled) = size
    /\ queue # <<>>

\* The verb handle_connection matches on for a received line.
Verb(raw) == to_uppercase(Head(split(trim(raw), SP)))
\* The arguments handle_connection passes to the handler for a received line.
Args(raw) == Tail(split(trim(raw), SP))
\* The reply codes of ctl that end a command (2xx to 5xx); 1xx is a
\* preliminary mark.
RECURSIVE Final(_)
Final(codes) ==
    IF codes = <<>> THEN <<>>
    ELSE IF Head(codes) >= 200 THEN <<Head(codes)>> \o Final(Tail(codes))
    ELSE Final(Tail(codes))
\* This step is connection c receiving a request line with verb v.
RequestStep(c, v) ==
    /\ nreq' = nreq + 1
    /\ req'[c] # <<>>
    /\ Verb(req'[c]) = v
    /\ \E held \in HeldChoices : Request(c, req'[c], held, nreq')

\* C5: the pending data listener is single-use: once a LIST has accepted a
\* data connection on it, the session has no pending data listener (so that
\* a LIST with no PASV in between fails with 425).
C5_ListenerSingleUse ==
    \A c \in Conns :
        (conn[c] = "serving" /\ Verb(req[c]) = V_LIST /\ ctl[c] = <<150, 226, 250>>)
        => client[c].data_listener = <<>>

\* C6: a LIST received by a session with no pending data listener is answered
\* 425 on the control connection and the session keeps reading requests.
C6_UnarmedListGets425 ==
    [][\A c \in Conns :
          (RequestStep(c, V_LIST) /\ client[c].data_listener = <<>>)
          => (ctl'[c] = <<425>> /\ conn'[c] = "serving")]_vars

\* C7: once a request line that was read and dispatched has been handled,
\* exactly one reply has been written for it on the control connection,
\* before the next line is read.
C7_ExactlyOneReply ==
    \A c \in Conns :
        (trim(req[c]) # <<>> /\ conn[c] # "accepting") => Len(Final(ctl[c])) = 1

\* C8: the command loop ends only on a read of no bytes (the peer closed) or
\* on a read error; no handler ends it or abandons the connection.
C8_LoopEndsOnlyOnEofOrIoError ==
    \A c \in Conns :
        /\ conn[c] # "panicked"
        /\ conn[c] = "eof" => req[c] = <<>>

\* C9: until the pool is shut down every worker stays alive, taking or
\* running jobs, whatever the connections send and however they end.
C9_WorkersSurviveConnections ==
    \A w \in Workers : sender => wpc[w] \in {"lock", "recv", "job"}

\* C10: a CWD or CDUP that fails answers 501 (no path), 550 (no such path) or
\* 450 (stat error) and leaves the working directory as it was.
C10_FailedCwdKeepsCwd ==
    [][\A c \in Conns :
          ((RequestStep(c, V_CWD) \/ RequestStep(c, V_CDUP)) /\ ctl'[c] # <<250>>)
          => /\ client'[c].options.working_directory = client[c].options.working_directory
             /\ \E code \in {501, 550, 450} : ctl'[c] = <<code>>
             /\ (Args(req'[c]) = <<>> /\ Verb(req'[c]) = V_CWD) <=> ctl'[c] = <<501>>
             /\ (/\ req'[c] = Line(<<V_CWD, <<"z">> >>)
                 /\ client[c].options.working_directory # <<SLASH>> \o DirP)
                => ctl'[c] = <<550>>
             /\ (/\ req'[c] \in {Line(<<V_CWD, DirA>>), Line(<<V_CWD, <<"z">> >>)}
                 /\ client[c].options.working_directory = <<SLASH>> \o DirP)
                => ctl'[c] = <<450>>
             /\ conn'[c] = "serving"]_vars

\* C10 witness: a CWD to a path that does not exist was answered 550 in a
\* session that had left the initial directory.
C10_Witness ==
    \E c \in Conns :
        /\ conn[c] = "serving"
        /\ Verb(req[c]) = V_CWD
        /\ ctl[c] = <<550>>
        /\ client[c].options.working_directory = <<SLASH>> \o DirA

\* The directory a working directory string names.
Place(cl) == Stat(cl.options.working_directory).dir

\* This step is connection c receiving CDUP, or CWD with the argument `..`.
ParentStep(c) ==
    \/ RequestStep(c, V_CDUP)
    \/ /\ RequestStep(c, V_CWD)
       /\ Args(req'[c]) # <<>>
       /\ Head(Args(req'[c])) = DotDot

\* C11: CWD `..` and CDUP succeed with 250 and move the session to the parent
\* of the directory it was in; at the root `/` they stay at `/`; the working
\* directory stays a non-empty path from the root.
C11_DotDotGoesToParent ==
    [][\A c \in Conns :
          ParentStep(c) =>
             /\ ctl'[c] = <<250>>
             /\ Place(client'[c]) = Parent(Place(client[c]))
             /\ client[c].options.working_directory = <<SLASH>>
                => client'[c].options.working_directory = <<SLASH>>
             /\ client'[c].options.working_directory # <<>>
             /\ starts_with(client'[c].options.working_directory, SLASH)]_vars

\* This step is connection c receiving CWD with a relative path other than
\* `..`.
RelativeStep(c) ==
    /\ RequestStep(c, V_CWD)
    /\ Args(req'[c]) # <<>>
    /\ ~starts_with(Head(Args(req'[c])), SLASH)
    /\ Head(Args(req'[c])) # DotDot

\* A path without its trailing separators.
Stripped(path) == trim_end_matches(path, SLASH)

\* C12: CWD with a relative path that exists sets the working directory to
\* the old one and the path joined by one separator, trailing separators
\* stripped before and after: `b` from `/a` or `/a/` gives `/a/b`, `a` from
\* `/` gives `/a`,
\* and the stored working directory does not end with a separator.
C12_RelativePathResolved ==
    [][\A c \in Conns :
          RelativeStep(c) =>
             LET sub == Head(Args(req'[c]))
                 old == client[c].options.working_directory
                 new == client'[c].options.working_directory
             IN  /\ (sub = DirB /\ old \in { <<SLASH>> \o DirA, <<SLASH>> \o DirA \o <<SLASH>> })
                    => (ctl'[c] = <<250>> /\ new = <<SLASH>> \o DirA \o <<SLASH>> \o DirB)
                 /\ (sub = DirA /\ old = <<SLASH>>)
                    => (ctl'[c] = <<250>> /\ new = <<SLASH>> \o DirA)
                 /\ ctl'[c] = <<250>>
                    => /\ new = Stripped(Stripped(old) \o <<SLASH>> \o sub)
                       /\ new[Len(new)] # SLASH]_vars

\* C12 witness: `CWD b` was answered 250 and the working directory is /a/b.
C12_Witness ==
    \E c \in Conns :
        /\ conn[c] = "serving"
        /\ req[c] = Line(<<V_CWD, DirB>>)
        /\ ctl[c] = <<250>>
        /\ client[c].options.working_directory = <<SLASH>> \o DirA \o <<SLASH>> \o DirB

\* A decimal integer: an optional sign and at least one digit.
IsInteger(s) ==
    LET digits == IF s # <<>> /\ Head(s) \in {"+", "-"} THEN Tail(s) ELSE s
    IN  digits # <<>> /\ \A i \in 1..Len(digits) : IsDigit(digits[i])

\* An integer within the range of a signed 32-bit integer.
IsInt32(s) ==
    /\ IsInteger(s)
    /\ FitsI32(IF Head(s) \in {"+", "-"} THEN Tail(s) ELSE s, Head(s) = "-")

\* The mode TYPE records for the codes that take no byte size.
ModeOf(code) ==
    CASE code = <<"A">> -> "ASCII"
      [] code = <<"E">> -> "EBCDIC"
      [] code = <<"I">> -> "Image"

\* What C13 says of TYPE with no code, with the codes A, E and I, with L
\* without a byte size and with any other code, for the step of connection
\* c from options old to options new.
TypeCodes(c, a, new) ==
    /\ a = <<>> => ctl'[c] = <<501>>
    /\ (a # <<>> /\ Head(a) \in { <<"A">>, <<"E">>, <<"I">> })
       => (ctl'[c] = <<200>> /\ new.data_representation = ModeOf(Head(a)))
    /\ a = << <<"L">> >> => ctl'[c] = <<501>>
    /\ (a # <<>> /\ Head(a) \notin { <<"A">>, <<"E">>, <<"I">>, <<"L">> })
       => ctl'[c] = <<504>>

C14_OptsReplies ==
    [][\A c \in Conns :
          RequestStep(c, V_OPTS) =>
             LET a == Args(req'[c])
             IN  /\ a = <<>> => ctl'[c] = <<501>>
                 /\ (a # <<>> /\ Head(a) = UTF8) => ctl'[c] = <<202>>
                 /\ (a # <<>> /\ Head(a) # UTF8) => ctl'[c] = <<504>>
                 /\ client'[c] = client[c]
                 /\ conn'[c] = "serving"]_vars

\* C14 witness: `OPTS FOO` was answered 504 in a session that has a pending
\* data listener.
C14_Witness ==
    \E c \in Conns :
        /\ conn[c] = "serving"
        /\ req[c] = Line(<<V_OPTS, <<"F","O","O">> >>)
        /\ ctl[c] = <<504>>
        /\ client[c].data_listener # <<>>

\* The verbs handle_connection implements.
Implemented ==
    { V_USER, V_SYST, V_FEAT, V_OPTS, V_PWD, V_TYPE, V_PASV, V_LIST, V_CWD, V_CDUP }

\* C15: a request whose verb, put in uppercase, is not an implemented verb is
\* answered 502 and leaves the whole session state as it was; a request
\* whose verb is an implemented one in any case is not answered 502.
C15_UnknownVerbGets502 ==
    [][\A c \in Conns :
          (RequestStep(c, Verb(req'[c])) /\ trim(req'[c]) # <<>>) =>
             IF Verb(req'[c]) \in Implemented
             THEN ctl'[c] # <<502>>
             ELSE /\ ctl'[c] = <<502>>
                  /\ client'[c] = client[c]
                  /\ conn'[c] = "serving"]_vars

\* C15 witness: `quit` was answered 502 in a session that has logged in,
\* changed its transfer mode and has a pending data listener.
C15_Witness ==
    \E c \in Conns :
        /\ conn[c] = "serving"
        /\ req[c] = Line(<< <<"q","u","i","t">> >>)
        /\ ctl[c] = <<502>>
        /\ client[c].data_listener # <<>>
        /\ client[c].options # NewClient.options

\* The result of exec_pasv_command in the step of connection c, when this
\* step is c receiving PASV while other processes hold the ports below held.
PasvResult(c, held) ==
    exec_pasv_command(client[c].options, Args(req'[c]), Busy(held))

\* C16: when PASV binds port P, P is in 7000..65534, the 227 reply carries
\* p1 = P div 256 and p2 = P mod 256, both in 0..255, with p1*256+p2 = P, and
\* the pending data listener of the session is the one bound on P.
C16_PasvEncodesPort ==
    [][\A c \in Conns : \A held \in HeldChoices :
          (RequestStep(c, V_PASV) /\ Request(c, req'[c], held, nreq')
             /\ PasvResult(c, held).ok)
          => LET r  == PasvResult(c, held)
                 P  == client'[c].data_listener[1]
                 p1 == r.msg[2]
                 p2 == r.msg[3]
             IN  /\ ctl'[c] = <<227>>
                 /\ client'[c].data_listener = r.ret
                 /\ P \in PortLow..(PortEnd - 1)
                 /\ p1 \in 0..255 /\ p2 \in 0..255
                 /\ p1 = P \div 256 /\ p2 = P % 256
                 /\ p1 * 256 + p2 = P
                 /\ P \notin BoundPorts]_vars

\* C16 witness: PASV was answered 227 with the listener on the last port of
\* the range.
C16_Witness ==
    \E c \in Conns :
        /\ conn[c] = "serving"
        /\ Verb(req[c]) = V_PASV
        /\ ctl[c] = <<227>>
        /\ client[c].data_listener = <<PortEnd - 1>>

\* C17: when PASV finds no port of its range bindable, 425 is written on the
\* control connection, the pending data listener is left as it was, and the
\* session goes on reading requests.
C17_PasvExhaustedGets425 ==
    [][\A c \in Conns : \A held \in HeldChoices :
          (RequestStep(c, V_PASV) /\ Request(c, req'[c], held, nreq')
             /\ FirstBindable(PortLow, Busy(held)) = <<>>)
          => /\ ctl'[c] = <<425>>
             /\ client'[c].data_listener = client[c].data_listener
             /\ conn'[c] = "serving"]_vars

\* C17 witness: a PASV was answered 425 in a session that keeps the pending
\* data listener of an earlier PASV.
C17_Witness ==
    \E c \in Conns :
        /\ conn[c] = "serving"
        /\ Verb(req[c]) = V_PASV
        /\ ctl[c] = <<425>>
        /\ client[c].data_listener # <<>>

\* C18: when read_line finds that the peer has closed the control connection,
\* the loop of the connection ends, its worker goes back to taking jobs, and
\* the session holds nothing any more: a data listener armed by PASV is
\* closed and its port is bound by no listener of the process.  No other
\* session is touched.
C18_PeerCloseReleases ==
    [][\A c \in Conns :
          PeerClose(c) =>
             LET w == ServingWorker(c) IN
             /\ conn'[c] = "eof"
             /\ wpc'[w] = "lock" /\ wjob'[w] = <<>>
             /\ client'[c].data_listener = <<>>
             /\ \A p \in ListenerPorts(client[c]) : p \notin BoundPorts'
             /\ \A k \in Conns \ {c} : client'[k] = client[k] /\ conn'[k] = conn[k]]_vars

\* C18 witness: the peer of a session with a pending data listener closed
\* the control connection; the listener was closed with the session, its
\* port is bound by no one, and the only worker of the pool is serving the
\* next connection.
C18_Witness ==
    \E c, k \in Conns :
        /\ size = 1
        /\ conn[c] = "eof" /\ req[c] = <<>>
        /\ closed[c] # {}
        /\ closed[c] \cap BoundPorts = {}
        /\ conn[k] = "serving"

\* This step is the acceptor taking a connection from incoming().
AcceptStep == accepted' # accepted \/ (selfConn /\ ~selfConn')

\* C19: once the shutdown flag is true no job is dispatched to the pool; the
\* first connection accepted with the flag set makes the acceptor leave its
\* loop without handling it; the connections accepted before are not
\* terminated: FtpServer::start returns only after each of them has run to
\* its own end, and the process does not go down under them.
C19_ShutdownStopsDispatch ==
    [][/\ shutdown => /\ Len(queue') <= Len(queue)
                      /\ \A c \in Conns : conn'[c] = "queued" => conn[c] = "queued"
       /\ (shutdown /\ AcceptStep)
          => /\ server' = "joining"
             /\ \A c \in Conns : conn'[c] # conn[c] => conn'[c] = "refused"
       /\ server' = "returned"
          => \A c \in Submitted' : conn'[c] \in {"eof", "readerr", "builderr", "greeterr"}
       /\ (shutdown' /\ Ended')
          => \A c \in Submitted' : conn'[c] \notin {"queued", "serving", "accepting"}]_vars

\* The acceptor has left its loop, or the process is gone.
AcceptorStopped == server # "accepting" \/ proc # "running"

\* C20: after a shutdown signal the acceptor eventually stops.  The signal
\* thread connects to the server's own address only with the flag already
\* set, the acceptor leaves its loop on the first connection it takes then,
\* and it leaves it for no other reason than the flag.
C20_SignalStopsAcceptor ==
    /\ [][(selfConn' /\ ~selfConn) => shutdown]_vars
    /\ [][(shutdown /\ AcceptStep) => server' = "joining"]_vars
    /\ [](server \in {"joining", "returned"} => shutdown)
    /\ shutdown ~> AcceptorStopped

\* C20 witness: the signal thread has set the flag and connected, and the
\* acceptor, woken by that connection, has left its loop.
C20_Witness ==
    /\ shutdown
    /\ sigpc = "wait" /\ ~selfConn
    /\ server = "joining"
    /\ proc = "running"

\* The jobs execute has sent so far, in that order: start numbers the
\* connections as incoming() yields them and submits each in its own turn
\* of the loop.
SubmittedBefore(a, b) == a \in Submitted /\ b \in Submitted /\ a < b

\* This step is a worker taking the job of connection c out of the channel.
DequeueStep(c) == ran'[c] = ran[c] + 1

\* C21: jobs leave the queue in the order execute submitted them: whenever a
\* worker dequeues a job, every job submitted before it has been dequeued
\* already, whichever workers take them; in the queue the jobs wait in
\* submission order.
C21_DequeuedInSubmissionOrder ==
    /\ [][\A b \in Conns :
             DequeueStep(b) => \A a \in Conns : SubmittedBefore(a, b) => ran[a] >= 1]_vars
    /\ [](\A i, j \in 1..Len(queue) : i < j => queue[i] < queue[j])
    /\ [](\A a, b \in Conns :
             (SubmittedBefore(a, b) /\ ran[b] >= 1) => ran[a] >= 1)

\* C21 witness: two jobs were submitted and both were dequeued, the earlier
\* one by the second worker of the pool and the later one by the first.
C21_Witness ==
    /\ size = 2
    /\ wjob = << <<2>>, <<1>> >>
    /\ ran[1] = 1 /\ ran[2] = 1

\* C22: a connection accepted while all workers are busy is eventually
\* handled: every job in the queue is eventually taken by a worker, the
\* workers being scheduled fairly and every connection being handled coming
\* to its end.
C22_QueuedEventuallyTaken ==
    \A c \in Conns : (conn[c] = "queued") ~> (ran[c] >= 1)

\* Workers running a job.
Running == {w \in Workers : wpc[w] = "job"}

\* C23: a worker holds the lock of the queue only around its dequeue (from
\* lock() to the return of recv) and never while it runs a job: with
\* workers running jobs the lock is free, or held by an idle worker that
\* waits for the next job, so that as many jobs as there are workers can
\* run at once.
C23_LockOnlyAroundDequeue ==
    /\ \A w \in Workers : lock = <<w>> <=> wpc[w] = "recv"
    /\ \A w \in Running : lock # <<w>>
    /\ lock # <<>> => lock[1] \in Workers \ Running
    /\ Cardinality(Running) <= size

\* C23 witness: both workers of a pool of two run a job, so the one that
\* dequeued last took the lock and its job while the other was running
\* its own; the lock is free.
C23_Witness ==
    /\ size = 2
    /\ Running = {1, 2}
    /\ lock = <<>>
    /\ proc = "running"

\* No port of the range below P could be bound.  The ports below busy.below
\* are those of other processes, on which bind fails whatever p is; the
\* others are looked at one by one.
NoneBindableBelow(P, busy) ==
    LET own == IF busy.below > PortLow THEN busy.below ELSE PortLow IN
    /\ busy.below > PortLow => ~CanBind(PortLow, busy) /\ ~CanBind(busy.below - 1, busy)
    /\ \A p \in own..(P - 1) : ~CanBind(p, busy)

\* C24: PASV binds the lowest free port of 7000..65534: the port it binds
\* was bindable, and every lower port of the range was not, being held by
\* another process or by a listener of this one when the scan tried it.
C24_PasvBindsLowestFree ==
    [][\A c \in Conns : \A held \in HeldChoices :
          (RequestStep(c, V_PASV) /\ Request(c, req'[c], held, nreq')
             /\ ctl'[c] = <<227>>)
          => LET P == client'[c].data_listener[1] IN
             /\ P \in PortLow..(PortEnd - 1)
             /\ CanBind(P, Busy(held))
             /\ NoneBindableBelow(P, Busy(held))
             /\ (held = PortLow /\ BoundPorts = {}) => P = PortLow]_vars

\* C24 witness: PASV bound the second port of the range, the first being
\* held by the listener of the session's earlier PASV when it was tried.
C24_Witness ==
    \E c \in Conns :
        /\ conn[c] = "serving"
        /\ Verb(req[c]) = V_PASV
        /\ ctl[c] = <<227>>
        /\ client[c].data_listener = <<PortLow + 1>>

\* This step is a command handled on connection c: a request line received
\* and dispatched, or a LIST coming back from its accept.
CommandStep(c) ==
    \/ RequestStep(c, Verb(req'[c]))
    \/ \E ok \in BOOLEAN : ListAccept(c, ok)

\* This step is made by the job of connection c: a command, or the end of
\* the job.
OwnStep(c) == CommandStep(c) \/ PeerClose(c) \/ ReadError(c)

\* C25: session state is private to its connection: a command handled on
\* connection a leaves the working directory, the transfer mode, the
\* identity and the pending data listener of every other connection as they
\* were, and the session of a connection changes in the steps of its own job
\* only.
C25_SessionStatePrivate ==
    /\ [][\A a \in Conns :
             CommandStep(a) => \A b \in Conns \ {a} : client'[b] = client[b]]_vars
    /\ [][\A b \in Conns : client'[b] # client[b] => OwnStep(b)]_vars

\* C25 witness: two connections are served at once; connection 2 armed a
\* data listener, then connection 1 armed its own, and connection 2 still
\* holds the one it had.
C25_Witness ==
    /\ conn[1] = "serving" /\ conn[2] = "serving"
    /\ client[2].data_listener = <<PortLow>>
    /\ client[1].data_listener = <<PortLow + 1>>
    /\ Verb(req[1]) = V_PASV /\ ctl[1] = <<227>>

\* C26: a TYPE that answers 501 or 504 leaves the transfer representation of
\* the session and its local byte size as they were, TYPE `L` with a byte
\* size that is not an integer included.
C26_FailedTypeKeepsMode ==
    [][\A c \in Conns :
          (RequestStep(c, V_TYPE) /\ ctl'[c] \in { <<501>>, <<504>> })
          => /\ client'[c].options.data_representation
                  = client[c].options.data_representation
             /\ client'[c].options.local_bytes = client[c].options.local_bytes]_vars

\* C27: whatever CWD and CDUP commands a session has received, accepted or
\* refused, its working directory is a non-empty string that begins with
\* `/`.
C27_CwdIsAbsolute ==
    \A c \in Conns :
        LET wd == client[c].options.working_directory IN
        /\ wd # <<>>
        /\ starts_with(wd, SLASH)

\* C27 witness: at the root, a CWD whose path name is empty (two spaces
\* after the verb) made the handler build the empty path; it was refused
\* with 550 and the working directory is still `/`.
C27_Witness ==
    \E c \in Conns :
        /\ conn[c] = "serving"
        /\ req[c] = Line(<<V_CWD, <<>>, DirA>>)
        /\ ctl[c] = <<550>>
        /\ client[c].options.working_directory = <<SLASH>>

\* C28: a session holds at most one pending data listener after every
\* command: a PASV that succeeds while the session is armed binds a port
\* other than the one still held, the new listener takes the place of the
\* stored one, and the previous listener is closed (no listener of the
\* process is bound on its port any more).
C28_OnePendingListener ==
    /\ [](\A c \in Conns : Len(client[c].data_listener) <= 1)
    /\ [][\A c \in Conns :
             (RequestStep(c, V_PASV) /\ ctl'[c] = <<227>>
                /\ client[c].data_listener # <<>>)
             => LET old == client[c].data_listener[1]
                    new == client'[c].data_listener
                IN  /\ new # <<>>
                    /\ new[1] # old
                    /\ ListenerPorts(client'[c]) = {new[1]}
                    /\ new[1] \in BoundPorts'
                    /\ old \notin BoundPorts']_vars

\* C28 witness: a session armed on the first port of the range sent PASV
\* again and was armed on the second; after its next command, a PWD, that
\* listener is the one it holds.
C28_Witness ==
    \E c \in Conns :
        /\ conn[c] = "serving"
        /\ Verb(req[c]) = V_PWD
        /\ ctl[c] = <<257>>
        /\ client[c].data_listener = <<PortLow + 1>>

====
